---- MODULE Spec2Model ----
(***************************************************************************)
(* GridWorld (src/gridworld.py): the environment's configuration, its      *)
(* episode state (agent_state, traj) and the operations reset and step,    *)
(* with the transition function _get_next_state_and_reward.                *)
(*                                                                         *)
(* Units.  Cells are pairs <<x, y>> of integers.  Trajectory points are    *)
(* pairs in hundredths of a cell (the jittered point is a float in the     *)
(* code).  Rewards are in tenths (10.0 -> 100, -5.0 -> -50, -0.1 -> -1).   *)
(***************************************************************************)
EXTENDS Integers, Sequences, FiniteSets

VARIABLES
    env_size,          \* self.env_size = (rows, cols)
    start_state,       \* self.start_state
    target_state,      \* self.target_state
    forbidden_states,  \* self.forbidden_states (only membership is used)
    agent_state,       \* self.agent_state
    has_traj,          \* whether the attribute self.traj exists (set by reset only)
    traj,              \* self.traj
    nsteps,            \* number of completed step calls since the last reset
    ret,               \* the outcome of the last call
    overlay            \* what the last add_policy / add_state_values call drew

vars == <<env_size, start_state, target_state, forbidden_states,
          agent_state, has_traj, traj, nsteps, ret, overlay>>

config == <<env_size, start_state, target_state, forbidden_states>>

----------------------------------------------------------------------------
(* Bounds of the model *)

MaxRows == 2

MaxCols == 2

MaxSteps == 2

(* Program constants *)

Scale == 100

JitterStd == 3

ActionOffset == 20

reward_target == 100

reward_forbidden == 0 - 50

reward_step == 0 - 1

\* args.action_space
action_space == << <<0, -1>>, <<1, 0>>, <<0, 1>>, <<-1, 0>>, <<0, 0>> >>

Actions == {action_space[i] : i \in 1..Len(action_space)}

\* Values passed to step that are not in the action space
InvalidActions == {<<2, 2>>}

\* Sampled outcomes of the two successive np.random.randn() draws of one step,
\* in standard deviations
RandnSamples == {<<-1, 1>>, <<1, 2>>}

----------------------------------------------------------------------------
(* Configurations handed to the constructor (nothing is validated there) *)

Grid(size) == (0..(size[1] - 1)) \X (0..(size[2] - 1))

InGrid(p) == p \in Grid(env_size)

\* Cells outside the grid that a caller may pass by mistake
Outside(size) == {<<size[1], 0>>, <<0, -1>>}

Cells(size) == Grid(size) \cup Outside(size)

ForbiddenSets(size) == {{}} \cup {{c} : c \in Grid(size)}

----------------------------------------------------------------------------
(* Outcomes of calls *)

NoRet == [op |-> "init", action |-> <<0, 0>>, prev |-> <<0, 0>>, prev_traj |-> FALSE,
          state |-> <<0, 0>>, reward |-> 0, done |-> FALSE, info |-> {},
          err |-> "none"]

----------------------------------------------------------------------------
(* Pure functions of the class *)

\* tuple(np.array(state) + np.array(action))
Add(state, action) == <<state[1] + action[1], state[2] + action[2]>>

\* The four direction-specific boundary tests and what each clamps to.  A
\* "..._mut" operator is the operator that follows it with one slip of the
\* kind named in its comment; it is used only to show that a property
\* depends on the code it is checked against.

\* slip: the row count is used where the column count belongs
hits_down_mut(state, action) == state[2] + 1 > env_size[1] - 1 /\ action = <<0, 1>>

hits_down(state, action) == state[2] + 1 > env_size[2] - 1 /\ action = <<0, 1>>

clamp_down(state) == <<state[1], env_size[2] - 1>>

\* slip: the test on the action is forgotten
hits_right_mut(state, action) == state[1] + 1 > env_size[1] - 1

hits_right(state, action) == state[1] + 1 > env_size[1] - 1 /\ action = <<1, 0>>

\* slip: the column count is used where the row count belongs
clamp_right_mut(state) == <<env_size[2] - 1, state[2]>>

clamp_right(state) == <<env_size[1] - 1, state[2]>>

\* slip: y < 0 instead of y - 1 < 0
hits_up_mut(state, action) == state[2] < 0 /\ action = <<0, -1>>

hits_up(state, action) == state[2] - 1 < 0 /\ action = <<0, -1>>

clamp_up(state) == <<state[1], 0>>

\* slip: x < 0 instead of x - 1 < 0
hits_left_mut(state, action) == state[1] < 0 /\ action = <<-1, 0>>

hits_left(state, action) == state[1] - 1 < 0 /\ action = <<-1, 0>>

clamp_left(state) == <<0, state[2]>>

\* slip: the forbidden test is made before the target test
reaches_target_mut(new_state) ==
    new_state = target_state /\ new_state \notin forbidden_states

reaches_target(new_state) == new_state = target_state

\* slip: the current state is tested instead of the attempted one
enters_forbidden_mut(new_state) == agent_state \in forbidden_states

enters_forbidden(new_state) == new_state \in forbidden_states

\* slip: the agent is moved into the forbidden cell
blocked_state_mut(state, new_state) == new_state

\* x, y = state: the agent stays where it is
blocked_state(state, new_state) == state

\* slip: the forbidden branch is written before the target branch
get_next_state_and_reward_mut(state, action) ==
    LET new_state == Add(state, action)
    IN  IF hits_down(state, action)
          THEN << clamp_down(state), reward_forbidden >>
        ELSE IF hits_right(state, action)
          THEN << clamp_right(state), reward_forbidden >>
        ELSE IF hits_up(state, action)
          THEN << clamp_up(state), reward_forbidden >>
        ELSE IF hits_left(state, action)
          THEN << clamp_left(state), reward_forbidden >>
        ELSE IF enters_forbidden(new_state)
          THEN << blocked_state(state, new_state), reward_forbidden >>
        ELSE IF reaches_target(new_state)
          THEN << target_state, reward_target >>
        ELSE << new_state, reward_step >>

get_next_state_and_reward(state, action) ==
    LET new_state == Add(state, action)
    IN  IF hits_down(state, action)
          THEN << clamp_down(state), reward_forbidden >>
        ELSE IF hits_right(state, action)
          THEN << clamp_right(state), reward_forbidden >>
        ELSE IF hits_up(state, action)
          THEN << clamp_up(state), reward_forbidden >>
        ELSE IF hits_left(state, action)
          THEN << clamp_left(state), reward_forbidden >>
        ELSE IF reaches_target(new_state)
          THEN << target_state, reward_target >>
        ELSE IF enters_forbidden(new_state)
          THEN << blocked_state(state, new_state), reward_forbidden >>
        ELSE << new_state, reward_step >>

\* slip: the state is compared with the start instead of the target
is_done_start_mut(state) == state = start_state

\* slip: the agent's position before the move is tested
is_done_mut(state) == agent_state = target_state

is_done(state) == state = target_state

\* state_store: the jittered in-flight point, in hundredths
state_store(next_state, action, r1, r2) ==
    << Scale * next_state[1] + JitterStd * r1 + ActionOffset * action[1],
       Scale * next_state[2] + JitterStd * r2 + ActionOffset * action[2] >>

\* state_store_2: the exact point, in hundredths
state_store_2(next_state) == << Scale * next_state[1], Scale * next_state[2] >>

----------------------------------------------------------------------------
(* Operations *)

\* No overlay has been drawn
NoOverlay == [op |-> "none", drawn |-> <<>>]

Init ==
    /\ env_size \in (1..MaxRows) \X (1..MaxCols)
    /\ start_state \in Cells(env_size)
    /\ target_state \in Cells(env_size)
    /\ forbidden_states \in ForbiddenSets(env_size)
    /\ agent_state = start_state
    /\ has_traj = FALSE
    /\ traj = <<>>
    /\ nsteps = 0
    /\ ret = NoRet
    /\ overlay = NoOverlay

\* slip: the start point is appended to the old trajectory
reset_traj_mut(state) == Append(traj, state_store_2(state))

\* self.traj = [self.agent_state]
reset_traj(state) == <<state_store_2(state)>>

reset ==
    /\ agent_state' = start_state
    /\ traj' = reset_traj(start_state)
    /\ has_traj' = TRUE
    /\ nsteps' = 0
    /\ ret' = [op |-> "reset", action |-> <<0, 0>>, prev |-> agent_state,
               prev_traj |-> has_traj,
               state |-> start_state, reward |-> 0, done |-> FALSE, info |-> {},
               err |-> "none"]
    /\ UNCHANGED <<config, overlay>>

\* slip: the action is validated after the position has been updated
step_invalid_mut(action) ==
    /\ action \notin Actions
    /\ agent_state' = get_next_state_and_reward(agent_state, action)[1]
    /\ ret' = [op |-> "step", action |-> action, prev |-> agent_state,
               prev_traj |-> has_traj,
               state |-> <<0, 0>>, reward |-> 0, done |-> FALSE, info |-> {},
               err |-> "AssertionError"]
    /\ UNCHANGED <<config, has_traj, traj, nsteps, overlay>>

\* step with a value outside the action space: the assert on entry fails
step_invalid(action) ==
    /\ action \notin Actions
    /\ ret' = [op |-> "step", action |-> action, prev |-> agent_state,
               prev_traj |-> has_traj,
               state |-> <<0, 0>>, reward |-> 0, done |-> FALSE, info |-> {},
               err |-> "AssertionError"]
    /\ UNCHANGED <<config, agent_state, has_traj, traj, nsteps, overlay>>

\* step before the first reset: self.traj does not exist yet, so the first
\* append raises AttributeError after agent_state has been assigned
step_no_traj(action) ==
    /\ action \in Actions
    /\ ~has_traj
    /\ agent_state' = get_next_state_and_reward(agent_state, action)[1]
    /\ ret' = [op |-> "step", action |-> action, prev |-> agent_state,
               prev_traj |-> has_traj,
               state |-> <<0, 0>>, reward |-> 0, done |-> FALSE, info |-> {},
               err |-> "AttributeError"]
    /\ UNCHANGED <<config, has_traj, traj, nsteps, overlay>>

\* slip: only the exact point is recorded
step_traj_mut(old, next_state, action, r1, r2) ==
    Append(old, state_store_2(next_state))

\* slip: the two points are appended in the other order
step_traj_swapped_mut(old, next_state, action, r1, r2) ==
    Append(Append(old, state_store_2(next_state)),
           state_store(next_state, action, r1, r2))

\* slip: the list is assigned anew instead of appended to
step_traj_assign_mut(old, next_state, action, r1, r2) ==
    << state_store(next_state, action, r1, r2), state_store_2(next_state) >>

\* the two self.traj.append calls
step_traj(old, next_state, action, r1, r2) ==
    Append(Append(old, state_store(next_state, action, r1, r2)),
           state_store_2(next_state))

step_ok(action, r1, r2) ==
    /\ action \in Actions
    /\ has_traj
    /\ nsteps < MaxSteps
    /\ LET nr == get_next_state_and_reward(agent_state, action)
           next_state == nr[1]
           reward == nr[2]
           done == is_done(next_state)
       IN  /\ agent_state' = next_state
           /\ traj' = step_traj(traj, next_state, action, r1, r2)
           /\ ret' = [op |-> "step", action |-> action, prev |-> agent_state,
                      prev_traj |-> has_traj,
                      state |-> next_state, reward |-> reward, done |-> done,
                      info |-> {}, err |-> "none"]
    /\ nsteps' = nsteps + 1
    /\ UNCHANGED <<config, has_traj, overlay>>

Next ==
    \/ reset
    \/ \E action \in InvalidActions : step_invalid(action)
    \/ \E action \in Actions : step_no_traj(action)
    \/ \E action \in Actions, r \in RandnSamples : step_ok(action, r[1], r[2])

Spec == Init /\ [][Next]_vars

----------------------------------------------------------------------------
(* The overlays of the renderer: add_policy and add_state_values, called   *)
(* on an instance whose canvas exists.  overlay.drawn has one entry per    *)
(* state index, in the order of the loop: the cell computed for the index  *)
(* and what is drawn there.  Lengths are in hundredths of a cell,          *)
(* probabilities and rounded values in tenths.                             *)

\* self.num_states
num_states == env_size[1] * env_size[2]

\* Sampled rows of a policy matrix: the probability of each of the 5 actions
PolicyRowSamples == { <<0, 10, 0, 0, 0>>, <<0, 0, 0, 0, 10>>, <<5, 0, 5, 0, 0>> }

\* Sampled state values, in hundredths
ValueSamples == {0, 125}

\* slip: the column count is used where the row count belongs
policy_xy_mut(state) == <<state % env_size[2], state \div env_size[2]>>

\* x = state % self.env_size[0]; y = state // self.env_size[0]
policy_xy(state) == <<state % env_size[1], state \div env_size[1]>>

\* slip: the two coordinates are computed the other way round
values_xy_mut(i) == <<i \div env_size[1], i % env_size[1]>>

\* x = i % self.env_size[0]; y = i // self.env_size[0]
values_xy(i) == <<i % env_size[1], i \div env_size[1]>>

\* The patch drawn for action i of a row: an arrow, or a circle for stay
policy_patch(cell, i, action_probability) ==
    LET dx == action_space[i][1]
        dy == action_space[i][2]
    IN  IF <<dx, dy>> # <<0, 0>>
          THEN [kind |-> "arrow", x |-> cell[1], y |-> cell[2],
                dx |-> (10 + 5 * action_probability) * dx,
                dy |-> (10 + 5 * action_probability) * dy, value |-> 0]
          ELSE [kind |-> "circle", x |-> cell[1], y |-> cell[2],
                dx |-> 0, dy |-> 0, value |-> 0]

RECURSIVE policy_patches(_, _, _)
\* The inner loop of add_policy, from action i on
policy_patches(cell, state_action_group, i) ==
    IF i > Len(state_action_group) THEN <<>>
    ELSE IF state_action_group[i] # 0
      THEN <<policy_patch(cell, i, state_action_group[i])>>
           \o policy_patches(cell, state_action_group, i + 1)
    ELSE policy_patches(cell, state_action_group, i + 1)

add_policy(policy_matrix) ==
    /\ overlay.op = "none"
    /\ overlay' =
          [op |-> "add_policy",
           drawn |-> [k \in 1..Len(policy_matrix) |->
                        LET cell == policy_xy(k - 1)
                        IN  [cell |-> cell,
                             patches |-> policy_patches(cell, policy_matrix[k], 1)]]]
    /\ UNCHANGED <<config, agent_state, has_traj, traj, nsteps, ret>>

\* np.round(value, 1) of a value in hundredths, in tenths (half to even)
round_value(v) ==
    LET q == v \div 10
        r == v % 10
    IN  IF r < 5 THEN q
        ELSE IF r > 5 THEN q + 1
        ELSE IF q % 2 = 0 THEN q ELSE q + 1

add_state_values(values) ==
    /\ overlay.op = "none"
    /\ overlay' =
          [op |-> "add_state_values",
           drawn |-> [k \in 1..Len(values) |->
                        LET cell == values_xy(k - 1)
                        IN  [cell |-> cell,
                             patches |-> << [kind |-> "text", x |-> cell[1],
                                             y |-> cell[2], dx |-> 0, dy |-> 0,
                                             value |-> round_value(values[k])] >>]]]
    /\ UNCHANGED <<config, agent_state, has_traj, traj, nsteps, ret>>

\* A constructed instance with the corner-to-corner layout of the defaults
InitOverlay ==
    /\ env_size \in (1..MaxRows) \X (1..MaxCols)
    /\ start_state = <<0, 0>>
    /\ target_state = <<env_size[1] - 1, env_size[2] - 1>>
    /\ forbidden_states = {}
    /\ agent_state = start_state
    /\ has_traj = FALSE
    /\ traj = <<>>
    /\ nsteps = 0
    /\ ret = NoRet
    /\ overlay = NoOverlay

NextOverlay ==
    \/ \E policy_matrix \in [1..num_states -> PolicyRowSamples] :
          add_policy(policy_matrix)
    \/ \E values \in [1..num_states -> ValueSamples] : add_state_values(values)

SpecOverlay == InitOverlay /\ [][NextOverlay]_vars

----------------------------------------------------------------------------
(* Vocabulary of the properties *)

up == <<0, -1>>

right == <<1, 0>>

down == <<0, 1>>

left == <<-1, 0>>

stay == <<0, 0>>

FiveVectors == {up, right, down, left, stay}

rows == env_size[1]

cols == env_size[2]

\* The last call was a step that returned
Stepped == ret.op = "step" /\ ret.err = "none"

\* The cell the last step attempted to enter
candidate == Add(ret.prev, ret.action)

\* A point of the trajectory that is exactly the cell p
ExactPoint(p) == <<Scale * p[1], Scale * p[2]>>

----------------------------------------------------------------------------
(* C1: if start is inside the grid then, after reset and any sequence of   *)
(* step calls, the agent position satisfies 0 <= x <= rows-1 and           *)
(* 0 <= y <= cols-1, whatever the forbidden set and the target are.        *)
C1_AgentInsideGrid ==
    (InGrid(start_state) /\ has_traj) =>
        /\ 0 <= agent_state[1] /\ agent_state[1] <= rows - 1
        /\ 0 <= agent_state[2] /\ agent_state[2] <= cols - 1

\* a step against a wall, with a target outside the grid and a forbidden cell
C1_Witness ==
    /\ InGrid(start_state) /\ Stepped /\ nsteps = 2
    /\ candidate \notin Grid(env_size)
    /\ ~InGrid(target_state) /\ forbidden_states # {}

(* C2: reset, called in any state, sets the agent position to start and    *)
(* the trajectory to exactly [start], and returns (start, empty info).     *)
C2_Reset ==
    ret.op = "reset" =>
        /\ ret.err = "none"
        /\ agent_state = start_state
        /\ has_traj /\ traj = <<ExactPoint(start_state)>>
        /\ ret.state = start_state /\ ret.info = {}

\* reset called in a terminal state, mid-episode, away from start
C2_Witness ==
    /\ ret.op = "reset" /\ ret.prev_traj
    /\ ret.prev = target_state /\ start_state # target_state

(* C3: for every step that returns, done is true exactly when the returned *)
(* position equals target, whichever branch of the transition fired.       *)
C3_DoneIffTarget ==
    Stepped => (ret.done <=> ret.state = target_state)

\* done is returned by the boundary branch: the agent, on target, hits a wall
C3_Witness ==
    /\ Stepped /\ ret.done /\ ret.reward = reward_forbidden
    /\ candidate \notin Grid(env_size)

(* C4: forbidden block.  From an in-grid position p, a move whose          *)
(* candidate cell is inside the grid, forbidden and not the target returns *)
(* nextState = p and reward = rewardForbidden (negative), and the agent    *)
(* position stays p.                                                       *)
C4_ForbiddenBlock ==
    ( /\ Stepped /\ InGrid(ret.prev) /\ ret.action # stay
      /\ InGrid(candidate) /\ candidate \in forbidden_states
      /\ candidate # target_state )
    => /\ ret.state = ret.prev /\ agent_state = ret.prev
       /\ ret.reward = reward_forbidden /\ reward_forbidden < 0

C4_Witness ==
    /\ Stepped /\ InGrid(ret.prev) /\ ret.action = right
    /\ InGrid(candidate) /\ candidate \in forbidden_states
    /\ candidate # target_state

(* C5: boundary clamp.  From an in-grid position p other than target on a  *)
(* grid edge, the move across that edge (up at y=0, left at x=0, down at   *)
(* y=cols-1, right at x=rows-1) returns nextState = p, reward =            *)
(* rewardForbidden (negative) and done = False.                            *)
C5_BoundaryClamp ==
    ( /\ Stepped /\ InGrid(ret.prev) /\ ret.prev # target_state
      /\ \/ ret.action = up /\ ret.prev[2] = 0
         \/ ret.action = left /\ ret.prev[1] = 0
         \/ ret.action = down /\ ret.prev[2] = cols - 1
         \/ ret.action = right /\ ret.prev[1] = rows - 1 )
    => /\ ret.state = ret.prev
       /\ ret.reward = reward_forbidden /\ reward_forbidden < 0
       /\ ret.done = FALSE

\* the right wall of a grid that is not square
C5_Witness ==
    /\ Stepped /\ InGrid(ret.prev) /\ ret.prev # target_state
    /\ ret.action = right /\ ret.prev[1] = rows - 1 /\ rows # cols

(* C6: goal reach.  From an in-grid position p, an action a with p + a     *)
(* equal to an in-grid target returns nextState = target, reward =         *)
(* rewardTarget (positive) and done = True, and the agent is on target.    *)
C6_GoalReach ==
    (Stepped /\ InGrid(ret.prev) /\ InGrid(target_state) /\ candidate = target_state)
    => /\ ret.state = target_state /\ agent_state = target_state
       /\ ret.reward = reward_target /\ reward_target > 0
       /\ ret.done = TRUE

\* a move onto the target from a neighbouring cell
C6_Witness ==
    /\ Stepped /\ InGrid(ret.prev) /\ InGrid(target_state)
    /\ candidate = target_state /\ ret.action = down

(* C7: invalid action.  A step call with a value that is not one of the 5  *)
(* displacement vectors always fails with an assertion error and leaves    *)
(* the agent position and the trajectory exactly as they were.             *)
C7_InvalidAction ==
    [][ (ret'.op = "step" /\ ret'.action \notin FiveVectors)
        => /\ ret'.err = "AssertionError"
           /\ agent_state' = agent_state
           /\ traj' = traj /\ has_traj' = has_traj ]_vars

\* step((2,2)) fails in the middle of an episode
C7_Witness ==
    /\ ret.op = "step" /\ ret.action = <<2, 2>> /\ ret.err = "AssertionError"
    /\ has_traj /\ nsteps = 1 /\ agent_state # start_state

(* C8: trajectory growth.  The trajectory has 1 entry right after reset    *)
(* and every step appends exactly 2 entries whichever branch fired: after  *)
(* n steps since the last reset its length is 1 + 2n.                      *)
C8_TrajectoryGrowth ==
    /\ ret.op = "reset" => Len(traj) = 1
    /\ has_traj => Len(traj) = 1 + 2 * nsteps

\* two steps, the second one blocked
C8_Witness ==
    /\ Stepped /\ nsteps = 2 /\ Len(traj) = 5
    /\ ret.reward = reward_forbidden /\ ret.state = ret.prev

(* C9, as claimed: step((0,0)) from any non-terminal position reachable    *)
(* after reset, start not being forbidden, leaves the agent position       *)
(* unchanged and yields reward = rewardStep and done = False.              *)
C9_StayAsClaimed ==
    ( /\ Stepped /\ ret.action = stay /\ ret.prev # target_state
      /\ start_state \notin forbidden_states )
    => /\ agent_state = ret.prev /\ ret.state = ret.prev
       /\ ret.reward = reward_step /\ ret.done = FALSE

(* C9, amended: the same, for a start that is inside the grid and not      *)
(* forbidden; repeating the stay action keeps the position and the reward. *)
C9_StayIdempotent ==
    ( /\ Stepped /\ ret.action = stay /\ ret.prev # target_state
      /\ InGrid(start_state) /\ start_state \notin forbidden_states )
    => /\ agent_state = ret.prev /\ ret.state = ret.prev
       /\ ret.reward = reward_step /\ ret.done = FALSE

\* the second of two stay steps in a grid with a forbidden cell
C9_Witness ==
    /\ Stepped /\ ret.action = stay /\ ret.prev # target_state
    /\ InGrid(start_state) /\ start_state \notin forbidden_states
    /\ forbidden_states # {}
    /\ nsteps = 2 /\ traj[3] = ExactPoint(agent_state)
    /\ traj[2] = traj[4]

(* C10, as claimed: once the agent is on target, only reset makes the      *)
(* agent position differ from target again; no step call does.  Stated     *)
(* for episodes in progress (after reset) of well-formed configurations:   *)
(* start and target inside the grid and not forbidden.                     *)
C10_OnlyResetAsClaimed ==
    [][ ( /\ has_traj
          /\ InGrid(start_state) /\ InGrid(target_state)
          /\ start_state \notin forbidden_states
          /\ target_state \notin forbidden_states
          /\ agent_state = target_state /\ agent_state' # target_state )
        => ret'.op = "reset" ]_vars

(* C10, amended: with the agent on an in-grid target, the next call leaves *)
(* the agent off target exactly when it is a reset with start # target or  *)
(* a step with a move action whose candidate cell is inside the grid and   *)
(* not forbidden; stay, a move into a wall or into a forbidden cell, and   *)
(* a rejected action leave it on target.                                   *)
C10_TerminalExit ==
    (InGrid(target_state) /\ ret.op # "init" /\ ret.prev = target_state)
    => ( agent_state # target_state
         <=> \/ ret.op = "reset" /\ start_state # target_state
             \/ /\ ret.op = "step" /\ ret.err # "AssertionError"
                /\ ret.action # stay
                /\ InGrid(candidate) /\ candidate \notin forbidden_states )

\* the agent reached the target by one step and left it again by the next
C10_Witness ==
    /\ Stepped /\ nsteps = 2 /\ InGrid(target_state)
    /\ start_state # target_state
    /\ ret.prev = target_state /\ agent_state # target_state

(* C11, as claimed: if neither start nor target is forbidden then, after   *)
(* reset and any sequence of valid step calls, the agent position is never *)
(* a member of the forbidden set.                                          *)
C11_NeverForbiddenAsClaimed ==
    ( /\ has_traj
      /\ start_state \notin forbidden_states
      /\ target_state \notin forbidden_states )
    => agent_state \notin forbidden_states

(* C11, amended: the same, for a start that is inside the grid.            *)
C11_NeverForbidden ==
    ( /\ has_traj /\ InGrid(start_state)
      /\ start_state \notin forbidden_states
      /\ target_state \notin forbidden_states )
    => agent_state \notin forbidden_states

\* the second step of an episode tried to enter the forbidden cell
C11_Witness ==
    /\ InGrid(start_state)
    /\ start_state \notin forbidden_states
    /\ target_state \notin forbidden_states
    /\ Stepped /\ nsteps = 2 /\ ret.action # stay
    /\ candidate \in forbidden_states

(* C12: no partial failure.  In every state of a constructed instance,     *)
(* the state before the first reset included, reset() and step(a) with a   *)
(* in the action set complete without error, and no call leaves the agent  *)
(* position changed without the trajectory ending in the new position.     *)
(* Stated for well-formed configurations (start and target in the grid).   *)
C12_NoPartialFailure ==
    ( /\ InGrid(start_state) /\ InGrid(target_state)
      /\ ret.op # "init" /\ ret.action \in FiveVectors )
    => /\ ret.err = "none"
       /\ has_traj
       /\ traj[Len(traj)] = ExactPoint(agent_state)

(* C13: in every state reachable after reset the last entry of the         *)
(* trajectory is exactly the agent position: reset leaves [start], and a   *)
(* step appends the un-jittered resulting position last, in every branch.  *)
C13_LastEntryIsAgent ==
    has_traj =>
        /\ Len(traj) >= 1
        /\ traj[Len(traj)] = ExactPoint(agent_state)
        /\ ret.op = "reset" => traj = <<ExactPoint(start_state)>>
        /\ Stepped => traj[Len(traj)] = ExactPoint(ret.state)

\* after two steps, the last one a move: the jittered point before the last
\* entry is not the agent position
C13_Witness ==
    /\ Stepped /\ nsteps = 2 /\ ret.state # ret.prev
    /\ traj[Len(traj) - 1] # ExactPoint(agent_state)
    /\ traj[Len(traj)] = ExactPoint(agent_state)

(* C14: the trajectory is append-only within an episode.  A step never    *)
(* changes or removes entries (the old trajectory is a prefix of the new   *)
(* one), so trajectory[0] = start from a reset until the next reset; only  *)
(* reset clears it.                                                        *)
C14_AppendOnly ==
    /\ [](has_traj => (Len(traj) >= 1 /\ traj[1] = ExactPoint(start_state)))
    /\ [][ ret'.op = "step"
           => /\ Len(traj') >= Len(traj)
              /\ SubSeq(traj', 1, Len(traj)) = traj ]_vars

\* a trajectory of two steps that took the agent away from start
C14_Witness ==
    /\ Stepped /\ nsteps = 2 /\ Len(traj) = 5
    /\ traj[1] = ExactPoint(start_state)
    /\ traj[3] # traj[1] /\ traj[5] # traj[3]

(* C15: goal wins over forbidden.  When target is in the forbidden set,    *)
(* every step whose in-grid candidate cell equals target moves the agent   *)
(* to target with reward = rewardTarget and done = True; it is never       *)
(* blocked with rewardForbidden.                                           *)
C15_GoalWinsOverForbidden ==
    ( /\ Stepped /\ target_state \in forbidden_states
      /\ InGrid(candidate) /\ candidate = target_state )
    => /\ agent_state = target_state /\ ret.state = target_state
       /\ ret.reward = reward_target /\ ret.reward # reward_forbidden
       /\ ret.done = TRUE

\* a move from another cell onto a target that is forbidden
C15_Witness ==
    /\ Stepped /\ target_state \in forbidden_states
    /\ candidate = target_state /\ ret.prev # target_state
    /\ ret.action = left

(* The generic rule: an out-of-grid cell clamped to the nearest in-grid cell *)
Clamp(v, lo, hi) == IF v < lo THEN lo ELSE IF v > hi THEN hi ELSE v

ClampToGrid(p) == <<Clamp(p[1], 0, rows - 1), Clamp(p[2], 0, cols - 1)>>

\* One of the four boundary branches fired in the last step
BoundaryFired ==
    \/ hits_down(ret.prev, ret.action) \/ hits_right(ret.prev, ret.action)
    \/ hits_up(ret.prev, ret.action) \/ hits_left(ret.prev, ret.action)

(* C17: for the 5 actions and every in-grid agent position, one of the     *)
(* four boundary branches fires exactly when the candidate cell is outside *)
(* the grid, and the resulting position is then the candidate clamped to   *)
(* the nearest in-grid cell, which is the current position.                *)
C17_BoundaryIsGenericClamp ==
    (Stepped /\ InGrid(ret.prev))
    => /\ BoundaryFired <=> ~InGrid(candidate)
       /\ ~InGrid(candidate)
            => /\ ret.state = ClampToGrid(candidate)
               /\ ret.state = ret.prev
               /\ ret.reward = reward_forbidden

\* the bottom wall of a grid that is not square
C17_Witness ==
    /\ Stepped /\ InGrid(ret.prev) /\ ~InGrid(candidate)
    /\ ret.action = down /\ rows # cols

(* C18, as claimed: with three pairwise distinct reward constants and an   *)
(* in-grid target, every step returns a reward in {rewardTarget,           *)
(* rewardForbidden, rewardStep}, and for a step taken with the agent off   *)
(* target the reward is rewardTarget exactly when done is true.            *)
C18_RewardIffDoneAsClaimed ==
    ( /\ Stepped /\ InGrid(target_state)
      /\ reward_target # reward_forbidden /\ reward_target # reward_step
      /\ reward_forbidden # reward_step )
    => /\ ret.reward \in {reward_target, reward_forbidden, reward_step}
       /\ ret.prev # target_state
            => (ret.reward = reward_target <=> ret.done)

(* C18, amended: the same, for a start that is inside the grid.            *)
C18_RewardIffDone ==
    /\ reward_target # reward_forbidden /\ reward_target # reward_step
    /\ reward_forbidden # reward_step
    /\ (Stepped /\ InGrid(target_state) /\ InGrid(start_state))
       => /\ ret.reward \in {reward_target, reward_forbidden, reward_step}
          /\ ret.prev # target_state
               => (ret.reward = reward_target <=> ret.done)

\* the agent, off target, reaches the target by its second step
C18_Witness ==
    /\ Stepped /\ InGrid(target_state) /\ InGrid(start_state)
    /\ nsteps = 2 /\ ret.prev # target_state /\ ret.prev # start_state
    /\ ret.reward = reward_target /\ ret.done

\* The cells computed by the last overlay call
OverlayCells == {overlay.drawn[k].cell : k \in 1..Len(overlay.drawn)}

(* C19: the overlay mapping state -> (x, y) = (state % rows, state // rows) *)
(* is a bijection from {0, ..., rows*cols-1} onto the grid cells, with     *)
(* inverse state = y*rows + x, for every grid size, square or not, and     *)
(* add_policy and add_state_values use the same mapping.                   *)
C19_OverlayBijection ==
    overlay.op \in {"add_policy", "add_state_values"} =>
        /\ Len(overlay.drawn) = rows * cols
        /\ \A k \in 1..Len(overlay.drawn) :
              LET d == overlay.drawn[k]
              IN  /\ 0 <= d.cell[1] /\ d.cell[1] <= rows - 1
                  /\ 0 <= d.cell[2] /\ d.cell[2] <= cols - 1
                  /\ d.cell[2] * rows + d.cell[1] = k - 1
                  /\ \A j \in 1..Len(d.patches) :
                        <<d.patches[j].x, d.patches[j].y>> = d.cell
        /\ OverlayCells = Grid(env_size)
        /\ Cardinality(OverlayCells) = Len(overlay.drawn)

\* a policy drawn on a grid that is not square
C19_Witness ==
    /\ overlay.op = "add_policy" /\ rows # cols /\ rows * cols > 1
    /\ \E k \in 1..Len(overlay.drawn) : Len(overlay.drawn[k].patches) = 2

\* state values drawn on a grid that is not square
C19_WitnessValues ==
    /\ overlay.op = "add_state_values" /\ rows # cols /\ rows * cols > 1

====
